---- MODULE Spec2Model ----
(***************************************************************************)
(* plwordnet-rs: the streaming loader (src/src/parser.rs), the store       *)
(* (src/src/model.rs) and the view layer (src/src/logic.rs).               *)
(*                                                                         *)
(* Strings and byte strings are sequences of one-character strings, so     *)
(* that trimming, suffix tests and number parsing are computed and not     *)
(* assumed.  Option<T> is a sequence of length 0 (None) or 1 (Some).       *)
(***************************************************************************)
EXTENDS Integers, Sequences, FiniteSets, TLC

VARIABLES
    status,      \* "init", "running", "Ok", "ErrIo", "panic": where from_file stands / how it ended
    panic_line,  \* line of parser.rs whose unwrap / unreachable! / panic! fired, 0 if none
    root,        \* Option<PlWordnet>: the local `root` of from_file, the returned graph once status = "Ok"
    context,     \* the local `context` of from_file
    nread,       \* number of events read from the reader so far
    ev,          \* Option<Event>: the event (or binder input) handled by the last step
    ret,         \* Option<value>: what the last query / binder call returned
    seen         \* what the document read so far contained (history, no state of the program)

vars == <<status, panic_line, root, context, nread, ev, ret, seen>>

None == <<>>
Some(x) == <<x>>
IsSome(o) == Len(o) = 1
Unwrap(o) == o[1]

(***************************************************************************)
(* Bounds of the model.                                                    *)
(***************************************************************************)
MaxEvents == 5      \* events of one document before Eof
MaxMembers == 3     \* Text events inside the synset of a view document

(***************************************************************************)
(* Byte strings.  BadByte stands for a byte that is not valid UTF-8.       *)
(***************************************************************************)
BadByte == "0xFF"
Replacement == "U+FFFD"
Digits == <<"0", "1", "2", "3", "4", "5", "6", "7", "8", "9">>
IsDigit(c) == \E i \in 1..10 : Digits[i] = c
DigitVal(c) == (CHOOSE i \in 1..10 : Digits[i] = c) - 1
\* char::is_whitespace: the code points of the Unicode property White_Space;
\* those TLA+ has no escape for are written by their code point
WhiteSpace ==
    {"\t", "\n", "U+000B", "\f", "\r", " ", "U+0085", "U+00A0", "U+1680",
     "U+2000", "U+2001", "U+2002", "U+2003", "U+2004", "U+2005", "U+2006",
     "U+2007", "U+2008", "U+2009", "U+200A", "U+2028", "U+2029", "U+202F",
     "U+205F", "U+3000"}
IsWhite(c) == c \in WhiteSpace

\* parser.rs:10  String::from_utf8_lossy: every invalid byte becomes U+FFFD
cast_string(text) ==
    [i \in 1..Len(text) |-> IF text[i] = BadByte THEN Replacement ELSE text[i]]

\* decimal value of a string of digits
RECURSIVE DecValue(_)
DecValue(s) ==
    IF Len(s) = 0 THEN 0
    ELSE 10 * DecValue(SubSeq(s, 1, Len(s) - 1)) + DigitVal(s[Len(s)])

AllDigits(s) == Len(s) > 0 /\ \A i \in 1..Len(s) : IsDigit(s[i])

\* usize::from_str: an optional "+", then one or more digits (values here are
\* far below 2^64, so the overflow error of from_str is out of reach)
UsizeParses(s) ==
    \/ AllDigits(s)
    \/ Len(s) > 1 /\ s[1] = "+" /\ AllDigits(Tail(s))
UsizeValue(s) == IF s[1] = "+" THEN DecValue(Tail(s)) ELSE DecValue(s)

\* i32::from_str: an optional "+" or "-", then one or more digits (|value| < 2^31 here)
I32Parses(s) ==
    \/ AllDigits(s)
    \/ Len(s) > 1 /\ s[1] \in {"+", "-"} /\ AllDigits(Tail(s))
I32Value(s) ==
    IF s[1] = "+" THEN DecValue(Tail(s))
    ELSE IF s[1] = "-" THEN 0 - DecValue(Tail(s))
    ELSE DecValue(s)

\* parser.rs:14-24: the casts; a cast is a pair <<ok, value>>, ok = FALSE where
\* the code's .parse().unwrap() panics
cast_usize(text) ==
    LET s == cast_string(text)
    IN  IF UsizeParses(s) THEN <<TRUE, UsizeValue(s)>> ELSE <<FALSE, 15>>

cast_i32(text) ==
    LET s == cast_string(text)
    IN  IF I32Parses(s) THEN <<TRUE, I32Value(s)>> ELSE <<FALSE, 19>>

cast_bool(text) == <<TRUE, cast_string(text) = <<"t", "r", "u", "e">> >>

\* parser.rs:31-37
gen_cast(ty, text) ==
    CASE ty = "usize" -> cast_usize(text)
      [] ty = "i32"   -> cast_i32(text)
      [] ty = "bool"  -> cast_bool(text)
      [] OTHER        -> <<TRUE, cast_string(text)>>

\* Default::default() of a field's type (parser.rs:57)
DefaultOf(ty) ==
    CASE ty = "usize" -> 0
      [] ty = "i32"   -> 0
      [] ty = "bool"  -> FALSE
      [] OTHER        -> <<>>

(***************************************************************************)
(* The attribute binder, parser.rs:39-63.  An element's attributes are the *)
(* sequence of <<key, raw value>> pairs in document order; keys are        *)
(* distinct (the tokenizer is out of scope, spec 4.1).  A field table is a *)
(* sequence of [field, key, ty].  The result is <<TRUE, record>> or        *)
(* <<FALSE, line>> when a cast panics.                                     *)
(***************************************************************************)
F(field, ty) == [field |-> field, key |-> field, ty |-> ty]
FK(field, key, ty) == [field |-> field, key |-> key, ty |-> ty]

FieldsOf(table) == {table[j].field : j \in 1..Len(table)}

\* parser.rs:49-55: the loop over the attributes
RECURSIVE BindLoop(_, _, _, _)
BindLoop(table, attrs, i, acc) ==
    IF i > Len(attrs) THEN <<TRUE, acc>>
    ELSE LET key == attrs[i][1]
             hit == {j \in 1..Len(table) : table[j].key = key}
         IN  IF hit = {} THEN BindLoop(table, attrs, i + 1, acc)
             ELSE LET j == CHOOSE k \in hit : \A m \in hit : k <= m
                      c == gen_cast(table[j].ty, attrs[i][2])
                  IN  IF ~c[1] THEN <<FALSE, c[2]>>
                      ELSE BindLoop(table, attrs, i + 1,
                                    [acc EXCEPT ![table[j].field] = Some(c[2])])

TypeOfField(table, f) == table[CHOOSE j \in 1..Len(table) : table[j].field = f].ty

\* the generated parse function with unwrap() in place of unwrap_or(default)
gen_parser_Unwrap(table, nested, mapped, attrs) ==
    LET r == BindLoop(table, attrs, 1, [f \in FieldsOf(table) |-> None])
    IN  IF ~r[1] THEN r
        ELSE IF \E f \in FieldsOf(table) : ~IsSome(r[2][f]) THEN <<FALSE, 57>>
        ELSE <<TRUE,
               [f \in FieldsOf(table) \cup nested \cup mapped |->
                   IF f \in nested \/ f \in mapped THEN <<>> ELSE Unwrap(r[2][f])]>>

\* parser.rs:47-61: the generated parse function
gen_parser(table, nested, mapped, attrs) ==
    LET r == BindLoop(table, attrs, 1, [f \in FieldsOf(table) |-> None])
    IN  IF ~r[1] THEN r
        ELSE <<TRUE,
               [f \in FieldsOf(table) \cup nested \cup mapped |->
                   IF f \in nested \/ f \in mapped THEN <<>>
                   ELSE IF IsSome(r[2][f]) THEN Unwrap(r[2][f])
                   ELSE DefaultOf(TypeOfField(table, f))]>>

\* parser.rs:66-138: the field tables
ArrayListTable == <<F("owner", "str"), F("date", "str"), F("version", "str")>>
LexicalUnitTable ==
    <<F("id", "usize"), F("name", "str"), F("pos", "str"), F("tagcount", "i32"),
      F("domain", "str"), F("desc", "str"), F("workstate", "str"), F("source", "str"),
      F("variant", "i32"), F("language", "str")>>
SynsetTable ==
    <<F("id", "usize"), F("workstate", "str"), F("split", "i32"), F("owner", "str"),
      F("definition", "str"), F("desc", "str"), FK("abstract_", "abstract", "bool")>>
RelationTypeTable ==
    <<F("id", "usize"), FK("type_", "type", "str"), F("reverse", "usize"), F("name", "str"),
      F("description", "str"), F("posstr", "str"), F("display", "str"), F("shortcut", "str"),
      F("autoreverse", "bool"), F("pwn", "str")>>
RelationTypeTestTable == <<F("text", "str"), F("pos", "str")>>
RelationTable ==
    <<F("parent", "usize"), F("child", "usize"), F("relation", "usize"),
      F("valid", "bool"), F("owner", "str")>>

parse_array_list(attrs) ==
    gen_parser(ArrayListTable, {"lexical_relations", "synset_relations"},
               {"lexical_units", "synsets", "relation_types"}, attrs)
parse_lexical_unit(attrs) == gen_parser(LexicalUnitTable, {}, {}, attrs)
parse_synset(attrs) == gen_parser(SynsetTable, {"lexical_units"}, {}, attrs)
parse_relation_type(attrs) == gen_parser(RelationTypeTable, {"tests"}, {}, attrs)
parse_relation_type_test(attrs) == gen_parser(RelationTypeTestTable, {}, {}, attrs)
parse_lexical_relation(attrs) == gen_parser(RelationTable, {}, {}, attrs)
parse_synset_relation(attrs) == gen_parser(RelationTable, {}, {}, attrs)

\* parser.rs:141-148
TAG_ARRAY_LIST == "array-list"
TAG_LEXICAL_UNIT == "lexical-unit"
TAG_SYNSET == "synset"
TAG_RELATION_TYPE == "relationtypes"
TAG_RELATION_TYPE_TEST == "test"
TAG_LEXICAL_RELATION == "lexicalrelations"
TAG_SYNSET_RELATION == "synsetrelations"
TAG_UNIT_ID == "unit-id"

\* parser.rs:151-155
CtxNone == [kind |-> "None", id |-> 0]
CtxSynset(id) == [kind |-> "Synset", id |-> id]
CtxRelationType(id) == [kind |-> "RelationType", id |-> id]

(***************************************************************************)
(* from_file, parser.rs:158-241.  The loop state is [status, panic_line,   *)
(* root, context]; a panic unwinds the stack, so it leaves no graph.       *)
(***************************************************************************)
Panic(line) == [status |-> "panic", panic_line |-> line, root |-> None, context |-> CtxNone]
Running(r, c) == [status |-> "running", panic_line |-> 0, root |-> r, context |-> c]

EndsWith(s, suffix) ==
    /\ Len(s) >= Len(suffix)
    /\ SubSeq(s, Len(s) - Len(suffix) + 1, Len(s)) = suffix

\* the suffix test without the space before "pwn"
Language_NoSpace(pos) ==
    IF EndsWith(pos, <<"p", "w", "n">>) THEN <<"e", "n">> ELSE <<"p", "l">>

\* parser.rs:173-176
Language(pos) ==
    IF EndsWith(pos, <<" ", "p", "w", "n">>) THEN <<"e", "n">> ELSE <<"p", "l">>

\* HashMap::insert: the entry of key k is replaced
Insert(m, k, v) == (k :> v) @@ m
\* the test pushed to every relation type of the map
PushTest_Every(m, id, data) ==
    [k \in DOMAIN m |-> [m[k] EXCEPT !.tests = Append(@, data)]]
\* parser.rs:183-185: entry(id).and_modify(|e| e.tests.push(data)); nothing
\* happens when the entry is vacant
PushTest(m, id, data) ==
    IF id \in DOMAIN m THEN [m EXCEPT ![id].tests = Append(@, data)] ELSE m
\* parser.rs:231-233: entry(id).and_modify(|e| e.lexical_units.push(lu_id))
PushMember(m, id, lu_id) ==
    IF id \in DOMAIN m THEN [m EXCEPT ![id].lexical_units = Append(@, lu_id)] ELSE m

\* parser.rs:171-178
EmptyLexicalUnit(r, c, attrs) ==
    LET p == parse_lexical_unit(attrs)
    IN  IF ~p[1] THEN Panic(p[2])
        ELSE LET data == [p[2] EXCEPT !.language = Language(p[2].pos)]
             IN  IF ~IsSome(r) THEN Panic(177)
                 ELSE Running(Some([Unwrap(r) EXCEPT
                                       !.lexical_units = Insert(@, data.id, data)]), c)

\* parser.rs:179-189
EmptyRelationTypeTest(r, c, attrs) ==
    LET p == parse_relation_type_test(attrs)
    IN  IF ~p[1] THEN Panic(p[2])
        ELSE IF c.kind = "RelationType"
             THEN IF ~IsSome(r) THEN Panic(183)
                  ELSE Running(Some([Unwrap(r) EXCEPT
                                        !.relation_types = PushTest(@, c.id, p[2])]), c)
             ELSE Panic(187)

\* parser.rs:190-193
EmptyLexicalRelation(r, c, attrs) ==
    LET p == parse_lexical_relation(attrs)
    IN  IF ~p[1] THEN Panic(p[2])
        ELSE IF ~IsSome(r) THEN Panic(192)
        ELSE Running(Some([Unwrap(r) EXCEPT !.lexical_relations = Append(@, p[2])]), c)

\* the synset edge pushed to the list of lexical edges
EmptySynsetRelation_IntoLexical(r, c, attrs) ==
    LET p == parse_synset_relation(attrs)
    IN  IF ~p[1] THEN Panic(p[2])
        ELSE IF ~IsSome(r) THEN Panic(196)
        ELSE Running(Some([Unwrap(r) EXCEPT !.lexical_relations = Append(@, p[2])]), c)

\* parser.rs:194-197
EmptySynsetRelation(r, c, attrs) ==
    LET p == parse_synset_relation(attrs)
    IN  IF ~p[1] THEN Panic(p[2])
        ELSE IF ~IsSome(r) THEN Panic(196)
        ELSE Running(Some([Unwrap(r) EXCEPT !.synset_relations = Append(@, p[2])]), c)

\* the relation type stored under its reverse field
EmptyRelationType_KeyedByReverse(r, c, attrs) ==
    LET p == parse_relation_type(attrs)
    IN  IF ~p[1] THEN Panic(p[2])
        ELSE IF ~IsSome(r) THEN Panic(200)
        ELSE Running(Some([Unwrap(r) EXCEPT
                              !.relation_types = Insert(@, p[2].reverse, p[2])]), c)

\* parser.rs:198-201
EmptyRelationType(r, c, attrs) ==
    LET p == parse_relation_type(attrs)
    IN  IF ~p[1] THEN Panic(p[2])
        ELSE IF ~IsSome(r) THEN Panic(200)
        ELSE Running(Some([Unwrap(r) EXCEPT
                              !.relation_types = Insert(@, p[2].id, p[2])]), c)

\* parser.rs:169-204: Event::Empty
OnEmpty(r, c, e) ==
    CASE e.tag = TAG_LEXICAL_UNIT       -> EmptyLexicalUnit(r, c, e.attrs)
      [] e.tag = TAG_RELATION_TYPE_TEST -> EmptyRelationTypeTest(r, c, e.attrs)
      [] e.tag = TAG_LEXICAL_RELATION   -> EmptyLexicalRelation(r, c, e.attrs)
      [] e.tag = TAG_SYNSET_RELATION    -> EmptySynsetRelation(r, c, e.attrs)
      [] e.tag = TAG_RELATION_TYPE      -> EmptyRelationType(r, c, e.attrs)
      [] OTHER                          -> Running(r, c)

\* the root kept when there is one already
StartArrayList_KeepFirst(r, c, attrs) ==
    LET p == parse_array_list(attrs)
    IN  IF ~p[1] THEN Panic(p[2])
        ELSE IF IsSome(r) THEN Running(r, c)
        ELSE Running(Some(p[2]), c)

\* parser.rs:208
StartArrayList(r, c, attrs) ==
    LET p == parse_array_list(attrs)
    IN  IF ~p[1] THEN Panic(p[2]) ELSE Running(Some(p[2]), c)

\* the members of an earlier synset of the same id carried over
StartSynset_KeepMembers(r, c, attrs) ==
    LET p == parse_synset(attrs)
    IN  IF ~p[1] THEN Panic(p[2])
        ELSE IF ~IsSome(r) THEN Panic(212)
        ELSE LET old == Unwrap(r).synsets
                 data == IF p[2].id \in DOMAIN old
                         THEN [p[2] EXCEPT !.lexical_units = old[p[2].id].lexical_units]
                         ELSE p[2]
             IN  Running(Some([Unwrap(r) EXCEPT !.synsets = Insert(@, data.id, data)]),
                         CtxSynset(data.id))

\* parser.rs:209-213
StartSynset(r, c, attrs) ==
    LET p == parse_synset(attrs)
    IN  IF ~p[1] THEN Panic(p[2])
        ELSE IF ~IsSome(r) THEN Panic(212)
        ELSE Running(Some([Unwrap(r) EXCEPT !.synsets = Insert(@, p[2].id, p[2])]),
                     CtxSynset(p[2].id))

\* parser.rs:214-218
StartRelationType(r, c, attrs) ==
    LET p == parse_relation_type(attrs)
    IN  IF ~p[1] THEN Panic(p[2])
        ELSE IF ~IsSome(r) THEN Panic(217)
        ELSE Running(Some([Unwrap(r) EXCEPT
                              !.relation_types = Insert(@, p[2].id, p[2])]),
                     CtxRelationType(p[2].id))

\* parser.rs:206-222: Event::Start
OnStart(r, c, e) ==
    CASE e.tag = TAG_ARRAY_LIST    -> StartArrayList(r, c, e.attrs)
      [] e.tag = TAG_SYNSET        -> StartSynset(r, c, e.attrs)
      [] e.tag = TAG_RELATION_TYPE -> StartRelationType(r, c, e.attrs)
      [] e.tag = TAG_UNIT_ID       -> Running(r, c)
      [] OTHER                     -> Panic(220)

\* the characters that the character references of the documents here name,
\* by code point
CharOfCode ==
    [n \in 48..57 |-> Digits[n - 47]]
    @@ (9 :> "\t") @@ (10 :> "\n") @@ (13 :> "\r") @@ (32 :> " ")
    @@ (38 :> "&") @@ (43 :> "+") @@ (45 :> "-") @@ (59 :> ";") @@ (120 :> "x")
HexDigits == <<"0", "1", "2", "3", "4", "5", "6", "7", "8", "9", "a", "b", "c", "d", "e", "f">>
HexDigitsUpper == <<"0", "1", "2", "3", "4", "5", "6", "7", "8", "9", "A", "B", "C", "D", "E", "F">>
IsHexDigit(c) == \E i \in 1..16 : HexDigits[i] = c \/ HexDigitsUpper[i] = c
RECURSIVE HexValue(_)
HexValue(s) ==
    IF Len(s) = 0 THEN 0
    ELSE 16 * HexValue(SubSeq(s, 1, Len(s) - 1))
         + (CHOOSE i \in 1..16 : HexDigits[i] = s[Len(s)] \/ HexDigitsUpper[i] = s[Len(s)]) - 1

\* the character an entity name stands for: the five predefined entities
\* and the character references &#N; and &#xH;, or None for anything else
ResolveEntity(name) ==
    LET numeral == IF Len(name) > 1 /\ name[2] = "x" THEN SubSeq(name, 3, Len(name))
                   ELSE Tail(name)
        hex == Len(name) > 1 /\ name[2] = "x"
        code == IF hex THEN HexValue(numeral) ELSE DecValue(numeral)
    IN  IF name = <<"l", "t">> THEN Some("<")
        ELSE IF name = <<"g", "t">> THEN Some(">")
        ELSE IF name = <<"a", "m", "p">> THEN Some("&")
        ELSE IF name = <<"a", "p", "o", "s">> THEN Some("'")
        ELSE IF name = <<"q", "u", "o", "t">> THEN Some("\"")
        ELSE IF Len(name) = 0 \/ name[1] # "#" \/ Len(numeral) = 0 THEN None
        ELSE IF hex /\ \E i \in 1..Len(numeral) : ~IsHexDigit(numeral[i]) THEN None
        ELSE IF ~hex /\ ~AllDigits(numeral) THEN None
        ELSE IF code \in DOMAIN CharOfCode THEN Some(CharOfCode[code])
        ELSE None

\* the text with every &name; replaced: <<TRUE, text>>, or <<FALSE, 226>> for
\* an "&" that no ";" closes or a name that stands for nothing
RECURSIVE UnescapeFrom(_)
UnescapeFrom(text) ==
    IF \A i \in 1..Len(text) : text[i] # "&" THEN <<TRUE, text>>
    ELSE LET i == CHOOSE k \in 1..Len(text) :
                      text[k] = "&" /\ \A m \in 1..(k - 1) : text[m] # "&"
             closed == \E k \in (i + 1)..Len(text) : text[k] = ";"
             j == CHOOSE k \in (i + 1)..Len(text) :
                      text[k] = ";" /\ \A m \in (i + 1)..(k - 1) : text[m] # ";"
         IN  IF ~closed THEN <<FALSE, 226>>
             ELSE LET c == ResolveEntity(SubSeq(text, i + 1, j - 1))
                      rest == UnescapeFrom(SubSeq(text, j + 1, Len(text)))
                  IN  IF ~IsSome(c) \/ ~rest[1] THEN <<FALSE, 226>>
                      ELSE <<TRUE, SubSeq(text, 1, i - 1) \o c \o rest[2]>>

\* parser.rs:226  BytesText::unescape: the bytes are decoded as UTF-8, which
\* fails on a byte that is not UTF-8, and then the entities are replaced.
\* A character reference to a code point outside CharOfCode is not in the
\* alphabet of the documents here.
unescape(text) ==
    IF \E i \in 1..Len(text) : text[i] = BadByte THEN <<FALSE, 226>>
    ELSE UnescapeFrom(text)

\* str::trim: leading and trailing white space removed
RECURSIVE TrimStart(_)
TrimStart(s) == IF Len(s) > 0 /\ IsWhite(s[1]) THEN TrimStart(Tail(s)) ELSE s
RECURSIVE TrimEnd(_)
TrimEnd(s) ==
    IF Len(s) > 0 /\ IsWhite(s[Len(s)]) THEN TrimEnd(SubSeq(s, 1, Len(s) - 1)) ELSE s
Trim(s) == TrimEnd(TrimStart(s))

\* parser.rs:224-236: Event::Text
OnText(r, c, e) ==
    IF c.kind = "Synset"
    THEN LET u == unescape(e.text)
         IN  IF ~u[1] THEN Panic(u[2])
             ELSE LET num == Trim(u[2])
                  IN  IF num = <<>> THEN Running(r, c)
                      ELSE IF ~UsizeParses(num) THEN Panic(229)
                      ELSE IF ~IsSome(r) THEN Panic(231)
                      ELSE Running(Some([Unwrap(r) EXCEPT
                                            !.synsets = PushMember(@, c.id, UsizeValue(num))]), c)
    ELSE Running(r, c)

\* parser.rs:167, 240: Event::Eof leaves the loop
OnEof(r, c) ==
    IF ~IsSome(r) THEN Panic(240)
    ELSE [status |-> "Ok", panic_line |-> 0, root |-> r, context |-> c]

(***************************************************************************)
(* The events of the reader (quick_xml::events::Event) and the documents   *)
(* the model reads.                                                        *)
(***************************************************************************)
EvStart(tag, attrs) == [shape |-> "Start", tag |-> tag, attrs |-> attrs, text |-> <<>>]
EvEmpty(tag, attrs) == [shape |-> "Empty", tag |-> tag, attrs |-> attrs, text |-> <<>>]
EvText(text) == [shape |-> "Text", tag |-> "", attrs |-> <<>>, text |-> text]
EvEnd(tag) == [shape |-> "End", tag |-> tag, attrs |-> <<>>, text |-> <<>>]
EvComment == [shape |-> "Comment", tag |-> "", attrs |-> <<>>, text |-> <<>>]
EvEof == [shape |-> "Eof", tag |-> "", attrs |-> <<>>, text |-> <<>>]
EvErr == [shape |-> "Err", tag |-> "", attrs |-> <<>>, text |-> <<>>]

A(key, value) == <<key, value>>
STrue == <<"t", "r", "u", "e">>
PosNoun == <<"n">>
PosNounPwn == <<"n", " ", "p", "w", "n">>
PosPwn == <<"p", "w", "n">>

LexicalUnitAttrs ==
    { <<A("id", <<"1">>), A("name", <<"k">>), A("pos", PosNoun)>>,
      <<A("id", <<"2">>), A("name", <<"c">>), A("pos", PosNounPwn), A("tagcount", <<"-", "7">>)>>,
      <<A("id", <<"1">>), A("pos", PosPwn), A("language", <<"e", "n">>)>>,
      <<A("id", <<"2">>), A("tagcount", <<"x">>)>> }
SynsetAttrs ==
    { <<A("id", <<"1">>)>>,
      <<A("id", <<"1">>), A("owner", <<"x">>)>>,
      <<A("id", <<"2">>), A("abstract", STrue)>> }
RelationTypeAttrs ==
    { <<A("id", <<"1">>), A("name", <<"h">>)>>,
      <<A("id", <<"2">>), A("reverse", <<"1">>), A("autoreverse", STrue)>> }
TestAttrs ==
    { <<A("text", <<"a">>), A("pos", PosNoun)>>,
      <<A("text", <<"b">>)>> }
RelationAttrs ==
    { <<A("parent", <<"1">>), A("child", <<"2">>), A("relation", <<"1">>),
        A("valid", STrue), A("owner", <<"x">>)>>,
      <<A("parent", <<"2">>), A("child", <<"9">>), A("relation", <<"3">>)>> }
\* a self-closing relation type with the id of an earlier one
RelationTypeAgain == <<A("id", <<"1">>), A("name", <<"g">>)>>
ArrayListAttrs == { <<A("owner", <<"o">>), A("version", <<"4">>)>> }

EmptyEvents ==
    {EvEmpty(TAG_LEXICAL_UNIT, a) : a \in LexicalUnitAttrs}
    \cup {EvEmpty(TAG_RELATION_TYPE_TEST, a) : a \in TestAttrs}
    \cup {EvEmpty(TAG_LEXICAL_RELATION, a) : a \in RelationAttrs}
    \cup {EvEmpty(TAG_SYNSET_RELATION, a) : a \in RelationAttrs}
    \cup {EvEmpty(TAG_RELATION_TYPE, a) : a \in RelationTypeAttrs \cup {RelationTypeAgain}}
    \cup {EvEmpty("foo", <<>>)}
StartEvents ==
    {EvStart(TAG_ARRAY_LIST, a) : a \in ArrayListAttrs}
    \cup {EvStart(TAG_SYNSET, a) : a \in SynsetAttrs}
    \cup {EvStart(TAG_RELATION_TYPE, a) : a \in RelationTypeAttrs}
    \cup {EvStart(TAG_UNIT_ID, <<>>), EvStart("foo", <<>>)}
TextEvents ==
    {EvText(t) : t \in { <<"1">>, <<" ", "2", "\r", "\n">>, <<"\r", "\n", " ">>,
                         <<"1", " ", "2">>, <<"x">>, <<"&">>, <<BadByte>>,
                         <<"&", "#", "5", "0", ";">> }}
OtherEvents == {EvEnd(TAG_SYNSET), EvEnd(TAG_RELATION_TYPE), EvEnd(TAG_UNIT_ID), EvComment}

(***************************************************************************)
(* The document read so far, kept beside the loader's state to state what  *)
(* a load returns in terms of the document:                                *)
(*   lexical, synset  the records of the lexicalrelations / synsetrelations*)
(*                    elements, in document order;                         *)
(*   before           how many of each preceded the last root Start;       *)
(*   open             the relationtypes elements whose Start was read and  *)
(*                    whose End was not, innermost last, each with its id  *)
(*                    and whether no synset, relationtypes or root Start   *)
(*                    was read since its own (direct).                     *)
(***************************************************************************)
SeenNothing ==
    [lexical |-> <<>>, synset |-> <<>>, before |-> [lexical |-> 0, synset |-> 0],
     open |-> <<>>]

Indirect(open) == [i \in DOMAIN open |-> [open[i] EXCEPT !.direct = FALSE]]

See(h, e) ==
    CASE e.shape = "Empty" /\ e.tag = TAG_LEXICAL_RELATION ->
            IF parse_lexical_relation(e.attrs)[1]
            THEN [h EXCEPT !.lexical = Append(@, parse_lexical_relation(e.attrs)[2])]
            ELSE h
      [] e.shape = "Empty" /\ e.tag = TAG_SYNSET_RELATION ->
            IF parse_synset_relation(e.attrs)[1]
            THEN [h EXCEPT !.synset = Append(@, parse_synset_relation(e.attrs)[2])]
            ELSE h
      [] e.shape = "Start" /\ e.tag = TAG_ARRAY_LIST ->
            [h EXCEPT !.before = [lexical |-> Len(h.lexical), synset |-> Len(h.synset)],
                      !.open = Indirect(@)]
      [] e.shape = "Start" /\ e.tag = TAG_SYNSET ->
            [h EXCEPT !.open = Indirect(@)]
      [] e.shape = "Start" /\ e.tag = TAG_RELATION_TYPE ->
            IF parse_relation_type(e.attrs)[1]
            THEN [h EXCEPT !.open = Append(Indirect(@),
                                           [id |-> parse_relation_type(e.attrs)[2].id,
                                            direct |-> TRUE])]
            ELSE h
      [] e.shape = "End" /\ e.tag = TAG_RELATION_TYPE ->
            [h EXCEPT !.open = IF @ = <<>> THEN @ ELSE SubSeq(@, 1, Len(@) - 1)]
      [] OTHER -> h

RECURSIVE SeeAll(_, _)
SeeAll(h, doc) == IF doc = <<>> THEN h ELSE SeeAll(See(h, Head(doc)), Tail(doc))

(***************************************************************************)
(* The loader as a state machine: one action per arm of the match at       *)
(* parser.rs:165-238.                                                      *)
(***************************************************************************)
Init ==
    /\ status = "init"
    /\ panic_line = 0
    /\ root = None
    /\ context = CtxNone
    /\ nread = 0
    /\ ev = None
    /\ ret = None
    /\ seen = SeenNothing

Become(st, e) ==
    /\ status' = st.status
    /\ panic_line' = st.panic_line
    /\ root' = st.root
    /\ context' = st.context
    /\ nread' = nread + 1
    /\ ev' = Some(e)
    /\ ret' = ret
    /\ seen' = See(seen, e)

\* parser.rs:159: Reader::from_file(path)? returns the I/O error to the caller
OpenFile ==
    /\ status = "init"
    /\ \E opened \in BOOLEAN : status' = IF opened THEN "running" ELSE "ErrIo"
    /\ UNCHANGED <<panic_line, root, context, nread, ev, ret, seen>>

ReadEmpty ==
    /\ status = "running" /\ nread < MaxEvents
    /\ \E e \in EmptyEvents : Become(OnEmpty(root, context, e), e)

ReadStart ==
    /\ status = "running" /\ nread < MaxEvents
    /\ \E e \in StartEvents : Become(OnStart(root, context, e), e)

ReadText ==
    /\ status = "running" /\ nread < MaxEvents
    /\ \E e \in TextEvents : Become(OnText(root, context, e), e)

\* parser.rs:237: every other event (End, Comment, ...) is skipped
ReadOther ==
    /\ status = "running" /\ nread < MaxEvents
    /\ \E e \in OtherEvents : Become(Running(root, context), e)

\* parser.rs:166
ReadErr ==
    /\ status = "running" /\ nread < MaxEvents
    /\ Become(Panic(166), EvErr)

ReadEof ==
    /\ status = "running"
    /\ Become(OnEof(root, context), EvEof)

Next ==
    \/ OpenFile
    \/ ReadEmpty
    \/ ReadStart
    \/ ReadText
    \/ ReadOther
    \/ ReadErr
    \/ ReadEof

Spec == Init /\ [][Next]_vars

(***************************************************************************)
(* The whole of from_file as a function of the document (the events before *)
(* Eof), for the specifications that start from a loaded graph.            *)
(***************************************************************************)
\* parser.rs:165-238: one turn of the loop
Step(r, c, e) ==
    CASE e.shape = "Empty" -> OnEmpty(r, c, e)
      [] e.shape = "Start" -> OnStart(r, c, e)
      [] e.shape = "Text"  -> OnText(r, c, e)
      [] e.shape = "Eof"   -> OnEof(r, c)
      [] e.shape = "Err"   -> Panic(166)
      [] OTHER             -> Running(r, c)

RECURSIVE RunLoop(_, _, _)
RunLoop(st, doc, i) ==
    IF st.status # "running" \/ i > Len(doc) THEN st
    ELSE RunLoop(Step(st.root, st.context, doc[i]), doc, i + 1)

\* parser.rs:158-241
from_file(doc) == RunLoop(Running(None, CtxNone), Append(doc, EvEof), 1)

(***************************************************************************)
(* The view layer, logic.rs.  Language::PL / Language::EN are "PL" / "EN". *)
(***************************************************************************)
\* logic.rs:172-187
LexicalUnitView(lu) ==
    [id |-> lu.id, name |-> lu.name, pos |-> lu.pos, tagcount |-> lu.tagcount,
     domain |-> lu.domain, desc |-> lu.desc, workstate |-> lu.workstate,
     source |-> lu.source, variant |-> lu.variant,
     language |-> IF EndsWith(lu.pos, <<" ", "p", "w", "n">>) THEN "EN" ELSE "PL"]

\* logic.rs:64-66
get_lexical_unit(wn, id) ==
    IF id \in DOMAIN wn.lexical_units THEN Some(LexicalUnitView(wn.lexical_units[id]))
    ELSE None

\* the members up to the first id that does not resolve
RECURSIVE ResolveUnits_StopAtDangling(_, _)
ResolveUnits_StopAtDangling(wn, ids) ==
    IF ids = <<>> \/ ~IsSome(get_lexical_unit(wn, Head(ids))) THEN <<>>
    ELSE get_lexical_unit(wn, Head(ids)) \o ResolveUnits_StopAtDangling(wn, Tail(ids))

\* logic.rs:207-209: filter_map(get_lexical_unit).collect()
RECURSIVE ResolveUnits(_, _)
ResolveUnits(wn, ids) ==
    IF ids = <<>> THEN <<>>
    ELSE get_lexical_unit(wn, Head(ids)) \o ResolveUnits(wn, Tail(ids))

\* logic.rs:210: lus.first().map_or(Language::PL, |lu| lu.language)
FirstLanguage(lus) == IF lus = <<>> THEN "PL" ELSE lus[1].language

\* the view with the language decided by the first stored id
synset_to_view_FirstStored(wn, s) ==
    LET lus == ResolveUnits(wn, s.lexical_units)
        first == IF s.lexical_units = <<>> THEN None
                 ELSE get_lexical_unit(wn, Head(s.lexical_units))
    IN  [id |-> s.id, workstate |-> s.workstate, split |-> s.split, owner |-> s.owner,
         definition |-> s.definition, desc |-> s.desc, abstract_ |-> s.abstract_,
         lexical_units |-> lus, language |-> FirstLanguage(first)]

\* logic.rs:206-222
synset_to_view(wn, s) ==
    LET lus == ResolveUnits(wn, s.lexical_units)
    IN  [id |-> s.id, workstate |-> s.workstate, split |-> s.split, owner |-> s.owner,
         definition |-> s.definition, desc |-> s.desc, abstract_ |-> s.abstract_,
         lexical_units |-> lus, language |-> FirstLanguage(lus)]

\* logic.rs:91-93
get_synset(wn, id) ==
    IF id \in DOMAIN wn.synsets THEN Some(synset_to_view(wn, wn.synsets[id])) ELSE None

\* HashMap::values(): the entries in an order the map chooses
Orders(keys) ==
    {o \in [1..Cardinality(keys) -> keys] : \A i, j \in DOMAIN o : i # j => o[i] # o[j]}

\* logic.rs:102-104, with the map's iteration order `order`
iter_synsets(wn, order) ==
    [i \in DOMAIN order |-> synset_to_view(wn, wn.synsets[order[i]])]

\* logic.rs:77-79
iter_lexical_units(wn, order) ==
    [i \in DOMAIN order |-> LexicalUnitView(wn.lexical_units[order[i]])]

\* logic.rs:189-204
RelationTypeView(rt) ==
    [id |-> rt.id, type_ |-> rt.type_, reverse |-> rt.reverse, name |-> rt.name,
     description |-> rt.description, posstr |-> rt.posstr, display |-> rt.display,
     shortcut |-> rt.shortcut, autoreverse |-> rt.autoreverse, pwn |-> rt.pwn]

\* logic.rs:154-156
get_relation_type(wn, id) ==
    IF id \in DOMAIN wn.relation_types THEN Some(RelationTypeView(wn.relation_types[id]))
    ELSE None

\* logic.rs:115-123
iter_lexical_relations(wn) ==
    [i \in 1..Len(wn.lexical_relations) |->
        LET lr == wn.lexical_relations[i]
        IN  [parent |-> get_lexical_unit(wn, lr.parent),
             child |-> get_lexical_unit(wn, lr.child),
             relation |-> get_relation_type(wn, lr.relation),
             valid |-> lr.valid, owner |-> lr.owner]]

\* the synset edges with the child looked up among the lexical units
iter_synset_relations_ChildUnit(wn) ==
    [i \in 1..Len(wn.synset_relations) |->
        LET lr == wn.synset_relations[i]
        IN  [parent |-> get_synset(wn, lr.parent),
             child |-> get_lexical_unit(wn, lr.child),
             relation |-> get_relation_type(wn, lr.relation),
             valid |-> lr.valid, owner |-> lr.owner]]

\* logic.rs:134-142
iter_synset_relations(wn) ==
    [i \in 1..Len(wn.synset_relations) |->
        LET lr == wn.synset_relations[i]
        IN  [parent |-> get_synset(wn, lr.parent),
             child |-> get_synset(wn, lr.child),
             relation |-> get_relation_type(wn, lr.relation),
             valid |-> lr.valid, owner |-> lr.owner]]

(***************************************************************************)
(* The queries of model.rs.  A query that can panic returns <<TRUE, value>>*)
(* or <<FALSE, line>>, the line of model.rs whose unwrap panicked; for a   *)
(* lazy iterator the value is what consuming it to the end yields.         *)
(***************************************************************************)
\* the edges whose parent is the id
synset_relations_by_id_Parent(wn, id) ==
    SelectSeq(wn.synset_relations, LAMBDA rel : rel.parent = id)

\* model.rs:110-116: filter_map over the list, keeping rel.relation == id
synset_relations_by_id(wn, id) ==
    SelectSeq(wn.synset_relations, LAMBDA rel : rel.relation = id)

\* some member Polish instead of every member
RECURSIVE AllPolish_Any(_, _)
AllPolish_Any(wn, members) ==
    IF members = <<>> THEN <<TRUE, FALSE>>
    ELSE IF Head(members) \notin DOMAIN wn.lexical_units THEN <<FALSE, 100>>
    ELSE IF wn.lexical_units[Head(members)].language = <<"p", "l">> THEN <<TRUE, TRUE>>
    ELSE AllPolish_Any(wn, Tail(members))

\* model.rs:99-104: s.lexical_units.iter().all(is_polish); all() stops at the
\* first member that is not Polish, is_polish unwraps the lookup
RECURSIVE AllPolish(_, _)
AllPolish(wn, members) ==
    IF members = <<>> THEN <<TRUE, TRUE>>
    ELSE IF Head(members) \notin DOMAIN wn.lexical_units THEN <<FALSE, 100>>
    ELSE IF wn.lexical_units[Head(members)].language # <<"p", "l">> THEN <<TRUE, FALSE>>
    ELSE AllPolish(wn, Tail(members))

\* model.rs:96-108, with the map's iteration order `order`; the synsets are
\* given by their ids
RECURSIVE FilterByLang(_, _, _, _, _)
FilterByLang(wn, lang, order, i, acc) ==
    IF i > Len(order) THEN <<TRUE, acc>>
    ELSE LET s == wn.synsets[order[i]]
             p == AllPolish(wn, s.lexical_units)
         IN  IF ~p[1] THEN p
             ELSE IF (lang = "PL" /\ p[2]) \/ (lang = "EN" /\ ~p[2])
                  THEN FilterByLang(wn, lang, order, i + 1, Append(acc, s.id))
                  ELSE FilterByLang(wn, lang, order, i + 1, acc)

filter_synsets_by_lang(wn, lang, order) == FilterByLang(wn, lang, order, 1, <<>>)

\* model.rs:158-162
to_simple(lu) == lu.name

\* model.rs:136-137: the member ids that are keys of lexical_units, as units
RECURSIVE MemberUnits(_, _)
MemberUnits(wn, ids) ==
    IF ids = <<>> THEN <<>>
    ELSE (IF Head(ids) \in DOMAIN wn.lexical_units
          THEN <<wn.lexical_units[Head(ids)]>> ELSE <<>>)
         \o MemberUnits(wn, Tail(ids))

\* model.rs:139-144: the loop over the units, from the buffer so far
RECURSIVE SimpleLoop(_, _)
SimpleLoop(buffer, lus) ==
    IF lus = <<>> THEN buffer
    ELSE SimpleLoop((IF Len(buffer) > 0 THEN Append(buffer, ",") ELSE buffer)
                        \o to_simple(Head(lus)),
                    Tail(lus))

\* model.rs:134-145; the unwrap of line 135 panics for an id of no synset
synset_to_simple(wn, id) ==
    IF id \notin DOMAIN wn.synsets THEN <<FALSE, 135>>
    ELSE <<TRUE, SimpleLoop(<<>>, MemberUnits(wn, wn.synsets[id].lexical_units))>>

\* model.rs:147-154, with the set's iteration order `order`
RECURSIVE SimplesLoop(_, _, _)
SimplesLoop(wn, buffer, order) ==
    IF order = <<>> THEN <<TRUE, buffer>>
    ELSE LET sep == IF Len(buffer) > 0 THEN Append(buffer, ",") ELSE buffer
             one == synset_to_simple(wn, Head(order))
         IN  IF ~one[1] THEN one
             ELSE SimplesLoop(wn, sep \o one[2], Tail(order))

synsets_to_simple(wn, order) == SimplesLoop(wn, <<>>, order)

(***************************************************************************)
(* SpecView: a document is loaded by from_file, then the graph is queried. *)
(***************************************************************************)
UnitKot == <<A("id", <<"1">>), A("name", <<"k">>), A("pos", PosNoun)>>
UnitCat == <<A("id", <<"2">>), A("name", <<"c">>), A("pos", PosNounPwn), A("tagcount", <<"-", "7">>)>>
UnitPwn == <<A("id", <<"1">>), A("pos", PosPwn), A("language", <<"e", "n">>)>>

ViewUnits ==
    { <<>>, <<UnitKot>>, <<UnitCat>>, <<UnitKot, UnitCat>>, <<UnitCat, UnitPwn>> }
MemberTexts == { <<"1">>, <<" ", "2", "\r", "\n">>, <<"9">> }
TextRuns == UNION {[1..k -> MemberTexts] : k \in 0..MaxMembers}
SecondSynset ==
    { <<>>,
      <<EvStart(TAG_SYNSET, <<A("id", <<"2">>), A("abstract", STrue)>>),
        EvText(<<"2">>), EvEnd(TAG_SYNSET)>> }

\* the member ids of a synset, each wrapped in a unit-id element or not
Members(texts, wrapped) ==
    IF wrapped
    THEN [i \in 1..(3 * Len(texts)) |->
             IF i % 3 = 1 THEN EvStart(TAG_UNIT_ID, <<>>)
             ELSE IF i % 3 = 2 THEN EvText(texts[(i + 1) \div 3])
             ELSE EvEnd(TAG_UNIT_ID)]
    ELSE [i \in 1..Len(texts) |-> EvText(texts[i])]

ViewDocs ==
    { <<EvStart(TAG_ARRAY_LIST, <<A("owner", <<"o">>)>>)>>
      \o [i \in 1..Len(units) |-> EvEmpty(TAG_LEXICAL_UNIT, units[i])]
      \o <<EvStart(TAG_SYNSET, <<A("id", <<"1">>)>>)>>
      \o Members(texts, wrapped)
      \o <<EvEnd(TAG_SYNSET)>>
      \o second
      \o <<EvEnd(TAG_ARRAY_LIST)>> :
        units \in ViewUnits, texts \in TextRuns, wrapped \in BOOLEAN, second \in SecondSynset }

\* documents with relation types and the two edge lists
MaxEdges == 2       \* elements of each edge list of a relation document
EdgeAttrs ==
    RelationAttrs
    \cup { <<A("parent", <<"9">>), A("child", <<"1">>), A("relation", <<"1">>),
             A("valid", <<"f", "a", "l", "s", "e">>), A("owner", <<"y">>)>> }
EdgeRuns == UNION {[1..k -> EdgeAttrs] : k \in 0..MaxEdges}
RelationTypeRuns ==
    { <<>>, <<EvEmpty(TAG_RELATION_TYPE, <<A("id", <<"1">>), A("name", <<"h">>)>>)>> }
RelationDocs ==
    { <<EvStart(TAG_ARRAY_LIST, <<A("owner", <<"o">>)>>),
        EvEmpty(TAG_LEXICAL_UNIT, UnitKot), EvEmpty(TAG_LEXICAL_UNIT, UnitCat),
        EvStart(TAG_SYNSET, <<A("id", <<"1">>)>>), EvText(<<"1">>), EvEnd(TAG_SYNSET)>>
      \o rts
      \o [i \in 1..Len(lrs) |-> EvEmpty(TAG_LEXICAL_RELATION, lrs[i])]
      \o [i \in 1..Len(srs) |-> EvEmpty(TAG_SYNSET_RELATION, srs[i])]
      \o <<EvEnd(TAG_ARRAY_LIST)>> :
        rts \in RelationTypeRuns, lrs \in EdgeRuns, srs \in EdgeRuns }

QueryIds == {1, 2, 9}

Returned(call, arg, value) ==
    /\ ret' = Some([call |-> call, arg |-> arg, value |-> value])
    /\ UNCHANGED <<status, panic_line, root, context, nread, ev, seen>>

LoadDocument ==
    /\ status = "init"
    /\ \E doc \in ViewDocs \cup RelationDocs :
          LET st == from_file(doc)
          IN  /\ status' = st.status
              /\ panic_line' = st.panic_line
              /\ root' = st.root
              /\ context' = st.context
              /\ nread' = Len(doc) + 1
              /\ ev' = Some(EvEof)
              /\ ret' = ret
              /\ seen' = SeeAll(seen, doc)

GetLexicalUnit ==
    /\ status = "Ok"
    /\ \E id \in QueryIds :
          Returned("get_lexical_unit", id, get_lexical_unit(Unwrap(root), id))

IterLexicalUnits ==
    /\ status = "Ok"
    /\ \E order \in Orders(DOMAIN Unwrap(root).lexical_units) :
          Returned("iter_lexical_units", 0, iter_lexical_units(Unwrap(root), order))

GetSynset ==
    /\ status = "Ok"
    /\ \E id \in QueryIds :
          Returned("get_synset", id, get_synset(Unwrap(root), id))

IterSynsets ==
    /\ status = "Ok"
    /\ \E order \in Orders(DOMAIN Unwrap(root).synsets) :
          Returned("iter_synsets", 0, iter_synsets(Unwrap(root), order))

GetRelationType ==
    /\ status = "Ok"
    /\ \E id \in QueryIds :
          Returned("get_relation_type", id, get_relation_type(Unwrap(root), id))

IterLexicalRelations ==
    /\ status = "Ok"
    /\ Returned("iter_lexical_relations", 0, iter_lexical_relations(Unwrap(root)))

IterSynsetRelations ==
    /\ status = "Ok"
    /\ Returned("iter_synset_relations", 0, iter_synset_relations(Unwrap(root)))

FilterSynsetsByLang ==
    /\ status = "Ok"
    /\ \E lang \in {"PL", "EN"}, order \in Orders(DOMAIN Unwrap(root).synsets) :
          Returned("filter_synsets_by_lang", lang,
                   filter_synsets_by_lang(Unwrap(root), lang, order))

RelationIds == {1, 2, 3}

SynsetRelationsById ==
    /\ status = "Ok"
    /\ \E id \in RelationIds :
          Returned("synset_relations_by_id", id, synset_relations_by_id(Unwrap(root), id))

SynsetToSimple ==
    /\ status = "Ok"
    /\ \E id \in QueryIds :
          Returned("synset_to_simple", id, synset_to_simple(Unwrap(root), id))

SynsetsToSimple ==
    /\ status = "Ok"
    /\ \E ids \in SUBSET QueryIds : \E order \in Orders(ids) :
          Returned("synsets_to_simple", order, synsets_to_simple(Unwrap(root), order))

NextView ==
    \/ LoadDocument
    \/ GetLexicalUnit
    \/ IterLexicalUnits
    \/ GetSynset
    \/ IterSynsets
    \/ GetRelationType
    \/ IterLexicalRelations
    \/ IterSynsetRelations
    \/ FilterSynsetsByLang
    \/ SynsetRelationsById
    \/ SynsetToSimple
    \/ SynsetsToSimple

SpecView == Init /\ [][NextView]_vars

(***************************************************************************)
(* SpecBind: the generated parse functions applied to single elements.     *)
(***************************************************************************)
Opt(key, values) == {<<>>} \cup {<<A(key, v)>> : v \in values}
Cat(S, T) == {s \o t : s \in S, t \in T}

BindLexicalUnitAttrs ==
    Cat(Opt("id", {<<"1">>, <<"+", "2">>, <<"x">>}),
    Cat(Opt("name", {<<"k">>, <<BadByte>>}),
    Cat(Opt("pos", {PosNounPwn}),
    Cat(Opt("tagcount", {<<"-", "7">>, <<"7", " ">>}),
    Cat(Opt("foo", {<<"1">>}),
    Cat(Opt("variant", {<<"3">>}),
        Opt("language", {<<"e", "n">>})))))))
BindSynsetAttrs ==
    Cat(Opt("id", {<<"1">>, <<"-", "1">>}),
    Cat(Opt("split", {<<"1">>, <<>>}),
    Cat(Opt("abstract", {STrue, <<"1">>}),
        Opt("abstract_", {STrue}))))
BindRelationTypeAttrs ==
    Cat(Opt("id", {<<"1">>}),
    Cat(Opt("type", {<<"h">>}),
    Cat(Opt("type_", {<<"g">>}),
    Cat(Opt("reverse", {<<"2">>, <<"n">>}),
        Opt("autoreverse", {STrue, <<"T">>})))))
BindRelationAttrs ==
    Cat(Opt("parent", {<<"1">>}),
    Cat(Opt("child", {<<"2">>, <<"2", "x">>}),
    Cat(Opt("relation", {<<"1", "0">>}),
    Cat(Opt("valid", {STrue}),
        Opt("owner", {<<"x">>})))))
BindTestAttrs == Cat(Opt("text", {<<"a">>}), Opt("pos", {PosNoun}))
BindArrayListAttrs == Cat(Opt("owner", {<<"o">>}), Cat(Opt("date", {<<"d">>}), Opt("version", {<<"4">>})))

Bound(call, attrs, value) ==
    /\ ret' = Some([call |-> call, arg |-> attrs, value |-> value])
    /\ UNCHANGED <<status, panic_line, root, context, nread, ev, seen>>

BindArrayList ==
    /\ status = "init"
    /\ \E a \in BindArrayListAttrs : Bound("parse_array_list", a, parse_array_list(a))
BindLexicalUnit ==
    /\ status = "init"
    /\ \E a \in BindLexicalUnitAttrs : Bound("parse_lexical_unit", a, parse_lexical_unit(a))
BindSynset ==
    /\ status = "init"
    /\ \E a \in BindSynsetAttrs : Bound("parse_synset", a, parse_synset(a))
BindRelationType ==
    /\ status = "init"
    /\ \E a \in BindRelationTypeAttrs : Bound("parse_relation_type", a, parse_relation_type(a))
BindRelationTypeTest ==
    /\ status = "init"
    /\ \E a \in BindTestAttrs : Bound("parse_relation_type_test", a, parse_relation_type_test(a))
BindLexicalRelation ==
    /\ status = "init"
    /\ \E a \in BindRelationAttrs : Bound("parse_lexical_relation", a, parse_lexical_relation(a))
BindSynsetRelation ==
    /\ status = "init"
    /\ \E a \in BindRelationAttrs : Bound("parse_synset_relation", a, parse_synset_relation(a))

NextBind ==
    \/ BindArrayList
    \/ BindLexicalUnit
    \/ BindSynset
    \/ BindRelationType
    \/ BindRelationTypeTest
    \/ BindLexicalRelation
    \/ BindSynsetRelation

SpecBind == Init /\ [][NextBind]_vars

(***************************************************************************)
(* Notions of the specification used to state the claims.                  *)
(***************************************************************************)
LastIs(e) == ev = Some(e)
LastShape == IF IsSome(ev) THEN Unwrap(ev).shape ELSE "none"
LastTag == IF IsSome(ev) THEN Unwrap(ev).tag ELSE "none"
NextShape == IF IsSome(ev') THEN Unwrap(ev').shape ELSE "none"
NextTag == IF IsSome(ev') THEN Unwrap(ev').tag ELSE "none"

AttrKeys(attrs) == {attrs[i][1] : i \in 1..Len(attrs)}
AttrValue(attrs, key) == attrs[CHOOSE i \in 1..Len(attrs) : attrs[i][1] = key][2]

\* the white-space separated tokens of a text
RECURSIVE Tokens(_)
Tokens(text) ==
    LET t == TrimStart(text)
        n == IF \E i \in 1..Len(t) : IsWhite(t[i])
             THEN (CHOOSE i \in 1..Len(t) : IsWhite(t[i]) /\ \A j \in 1..(i - 1) : ~IsWhite(t[j])) - 1
             ELSE Len(t)
    IN  IF t = <<>> THEN <<>>
        ELSE <<SubSeq(t, 1, n)>> \o Tokens(SubSeq(t, n + 1, Len(t)))

IsUnsigned(s) == Len(s) > 0 /\ \A i \in 1..Len(s) : s[i] \in {"0", "1", "2", "3", "4", "5", "6", "7", "8", "9"}

RecognisedTags ==
    {TAG_ARRAY_LIST, TAG_LEXICAL_UNIT, TAG_SYNSET, TAG_RELATION_TYPE, TAG_RELATION_TYPE_TEST,
     TAG_LEXICAL_RELATION, TAG_SYNSET_RELATION, TAG_UNIT_ID}

(***************************************************************************)
(* C1: EndElement(synset) resets the context to Idle, so that a Text event *)
(* arriving after a synset's end tag and before the next synset Start      *)
(* changes no synset's member list (and does not end the load).            *)
(***************************************************************************)
C1_EndSynsetClosesTheSynset ==
    /\ [](LastIs(EvEnd(TAG_SYNSET)) => context = CtxNone)
    /\ [][(LastIs(EvEnd(TAG_SYNSET)) /\ NextShape = "Text")
            => (status' = "running" /\ root' = root)]_vars

(***************************************************************************)
(* C2: a test element is accepted only while a relationtypes element is    *)
(* open: arriving with the context not a relation type, or right after     *)
(* EndElement(relationtypes), it ends the load with the error value        *)
(* UnexpectedElement, is appended to no relation type, and no graph is     *)
(* returned.                                                               *)
(***************************************************************************)
C2_TestOutsideRelationTypeIsAnError ==
    [][(/\ NextShape = "Empty" /\ NextTag = TAG_RELATION_TYPE_TEST
        /\ status = "running"
        /\ (context.kind # "RelationType" \/ LastIs(EvEnd(TAG_RELATION_TYPE))))
          => (status' = "ErrUnexpectedElement" /\ panic_line' = 0)]_vars

(***************************************************************************)
(* C3: a synset's member list is the sequence of the ids of its text       *)
(* content, wrapped in unit-id elements or not: a text of white-space      *)
(* separated ids arriving right after the synset's Start leaves the load   *)
(* running and the synset with exactly those ids as members, in order.     *)
(***************************************************************************)
C3_MembersAreTheIdsOfTheText ==
    [][(/\ LastShape = "Start" /\ LastTag = TAG_SYNSET /\ status = "running"
        /\ NextShape = "Text"
        /\ \A i \in 1..Len(Tokens(Unwrap(ev').text)) : IsUnsigned(Tokens(Unwrap(ev').text)[i]))
          => (/\ status' = "running"
              /\ IsSome(root')
              /\ context.id \in DOMAIN Unwrap(root').synsets
              /\ LET toks == Tokens(Unwrap(ev').text)
                 IN  Unwrap(root').synsets[context.id].lexical_units
                        = [i \in 1..Len(toks) |-> DecValue(toks[i])])]_vars

HasPwnSuffix(pos) ==
    \E k \in 0..Len(pos) : pos = SubSeq(pos, 1, k) \o <<" ", "p", "w", "n">>

(***************************************************************************)
(* C4: every lexical unit of the graph has language "en" if and only if    *)
(* its pos ends with the four characters " pwn", and "pl" otherwise,       *)
(* whatever the language attribute of its element says.                    *)
(***************************************************************************)
C4_LanguageFollowsPos ==
    IsSome(root) =>
        \A id \in DOMAIN Unwrap(root).lexical_units :
            LET lu == Unwrap(root).lexical_units[id]
            IN  /\ HasPwnSuffix(lu.pos) => lu.language = <<"e", "n">>
                /\ ~HasPwnSuffix(lu.pos) => lu.language = <<"p", "l">>

\* a loaded graph with an English unit and a unit whose element said
\* language="en" with a pos that lacks the suffix
C4_Witness ==
    /\ status = "Ok"
    /\ DOMAIN Unwrap(root).lexical_units = {1, 2}
    /\ Unwrap(root).lexical_units[1].pos = PosPwn
    /\ Unwrap(root).lexical_units[1].language = <<"p", "l">>
    /\ Unwrap(root).lexical_units[2].language = <<"e", "n">>

UnsignedKeys == {"id", "reverse", "parent", "child", "relation"}
SignedKeys == {"tagcount", "variant", "split"}
\* decimal numerals: an unsigned one may carry "+", a signed one "+" or "-"
IsUnsignedNumeral(s) == IsUnsigned(s) \/ (Len(s) > 1 /\ s[1] = "+" /\ IsUnsigned(Tail(s)))
IsSignedNumeral(s) == IsUnsigned(s) \/ (Len(s) > 1 /\ s[1] \in {"+", "-"} /\ IsUnsigned(Tail(s)))
InvalidFor(key, raw) ==
    \/ key \in UnsignedKeys /\ ~IsUnsignedNumeral(raw)
    \/ key \in SignedKeys /\ ~IsSignedNumeral(raw)
HasInvalidNumber(e) ==
    /\ \/ e.shape = "Empty" /\ e.tag \in {TAG_LEXICAL_UNIT, TAG_LEXICAL_RELATION,
                                           TAG_SYNSET_RELATION, TAG_RELATION_TYPE}
       \/ e.shape = "Start" /\ e.tag \in {TAG_SYNSET, TAG_RELATION_TYPE}
    /\ \E i \in 1..Len(e.attrs) : InvalidFor(e.attrs[i][1], e.attrs[i][2])

(***************************************************************************)
(* C5: an element with a numeric attribute that is present and does not    *)
(* parse ends the load with the error value InvalidAttributeValue; no      *)
(* graph is returned.                                                      *)
(***************************************************************************)
C5_InvalidNumberIsAnErrorValue ==
    (IsSome(ev) /\ HasInvalidNumber(Unwrap(ev)))
        => (status = "ErrInvalidAttributeValue" /\ panic_line = 0)

TableOfCall(call) ==
    CASE call = "parse_array_list"         -> ArrayListTable
      [] call = "parse_lexical_unit"       -> LexicalUnitTable
      [] call = "parse_synset"             -> SynsetTable
      [] call = "parse_relation_type"      -> RelationTypeTable
      [] call = "parse_relation_type_test" -> RelationTypeTestTable
      [] OTHER                             -> RelationTable
CollectionsOfCall(call) ==
    CASE call = "parse_array_list"    ->
            {"lexical_units", "synsets", "relation_types", "lexical_relations", "synset_relations"}
      [] call = "parse_synset"        -> {"lexical_units"}
      [] call = "parse_relation_type" -> {"tests"}
      [] OTHER                        -> {}

(***************************************************************************)
(* C6: in the record a generated parse function returns, every field whose *)
(* attribute is absent from the element holds the default of its type      *)
(* ("" , 0, 0, false) and every collection is empty; an absent attribute   *)
(* is never an error.                                                      *)
(***************************************************************************)
C6_AbsentAttributesTakeDefaults ==
    IsSome(ret) =>
        LET call == Unwrap(ret).call
            attrs == Unwrap(ret).arg
            value == Unwrap(ret).value
            table == TableOfCall(call)
            present == {j \in 1..Len(table) : table[j].key \in AttrKeys(attrs)}
        IN  /\ ~value[1] =>
                  \E j \in present : InvalidFor(table[j].key, AttrValue(attrs, table[j].key))
            /\ value[1] =>
                  /\ \A j \in (1..Len(table)) \ present :
                        \/ table[j].ty = "str" /\ value[2][table[j].field] = <<>>
                        \/ table[j].ty \in {"usize", "i32"} /\ value[2][table[j].field] = 0
                        \/ table[j].ty = "bool" /\ value[2][table[j].field] = FALSE
                  /\ \A f \in CollectionsOfCall(call) : value[2][f] = <<>>

\* a lexical-unit element without tagcount is bound with tagcount = 0
C6_Witness ==
    /\ IsSome(ret)
    /\ Unwrap(ret).call = "parse_lexical_unit"
    /\ AttrKeys(Unwrap(ret).arg) = {"id", "pos"}
    /\ Unwrap(ret).value[1]
    /\ Unwrap(ret).value[2].id = 1
    /\ Unwrap(ret).value[2].tagcount = 0
    /\ Unwrap(ret).value[2].name = <<>>

(***************************************************************************)
(* C7: Eof with no root container Start seen before it ends the load with  *)
(* the error value MissingRoot: no graph is returned and nothing panics.   *)
(***************************************************************************)
C7_EofWithoutRootIsMissingRoot ==
    [][(status = "running" /\ ~IsSome(root) /\ NextShape = "Eof")
          => (status' = "ErrMissingRoot" /\ panic_line' = 0)]_vars

(***************************************************************************)
(* C8: an element whose tag is not a recognised one, Start or Empty, ends  *)
(* the load with the error value UnexpectedElement.                        *)
(***************************************************************************)
C8_UnknownTagIsAnError ==
    [][(status = "running" /\ NextShape \in {"Start", "Empty"} /\ NextTag \notin RecognisedTags)
          => (status' = "ErrUnexpectedElement" /\ panic_line' = 0)]_vars

(***************************************************************************)
(* The synset views that the last query returned, each with the id of the  *)
(* synset it was made from.                                                *)
(***************************************************************************)
ReturnedSynsetViews ==
    IF ~IsSome(ret) THEN {}
    ELSE IF Unwrap(ret).call = "get_synset"
         THEN {Unwrap(ret).value[i] : i \in 1..Len(Unwrap(ret).value)}
    ELSE IF Unwrap(ret).call = "iter_synsets"
         THEN {Unwrap(ret).value[i] : i \in 1..Len(Unwrap(ret).value)}
    ELSE {}

\* the positions of a stored member list whose id is a key of lexical_units
Resolving(wn, members) == {i \in 1..Len(members) : members[i] \in DOMAIN wn.lexical_units}
\* the k-th smallest element of a set of positions
Kth(P, k) == CHOOSE i \in P : Cardinality({j \in P : j < i}) = k - 1

(***************************************************************************)
(* C9: get_synset and iter_synsets answer for every synset of the store    *)
(* with a view whose member list is the stored list of member ids with     *)
(* exactly the ids that are no key of lexical_units removed, order and     *)
(* duplicates kept; get_synset answers every stored id and iter_synsets    *)
(* yields one view per synset.                                             *)
(***************************************************************************)
C9_ViewDropsExactlyTheDanglingMembers ==
    (status = "Ok" /\ IsSome(ret)) =>
        LET wn == Unwrap(root)
            r == Unwrap(ret)
        IN  /\ r.call = "get_synset" => (IsSome(r.value) <=> r.arg \in DOMAIN wn.synsets)
            /\ r.call = "get_synset" /\ IsSome(r.value) => Unwrap(r.value).id = r.arg
            /\ r.call = "iter_synsets" =>
                  /\ Len(r.value) = Cardinality(DOMAIN wn.synsets)
                  /\ {r.value[i].id : i \in 1..Len(r.value)} = DOMAIN wn.synsets
            /\ \A v \in ReturnedSynsetViews :
                  LET members == wn.synsets[v.id].lexical_units
                      P == Resolving(wn, members)
                  IN  /\ Len(v.lexical_units) = Cardinality(P)
                      /\ \A k \in 1..Len(v.lexical_units) :
                            /\ v.lexical_units[k].id = members[Kth(P, k)]
                            /\ v.lexical_units[k].name
                                  = wn.lexical_units[members[Kth(P, k)]].name

\* get_synset answered for a synset that stores 1, 9, 1 with only unit 1 in the store
C9_Witness ==
    /\ status = "Ok" /\ IsSome(ret)
    /\ Unwrap(ret).call = "get_synset"
    /\ Unwrap(ret).arg = 1
    /\ DOMAIN Unwrap(root).lexical_units = {1}
    /\ Unwrap(root).synsets[1].lexical_units = <<1, 9, 1>>
    /\ Len(Unwrap(Unwrap(ret).value).lexical_units) = 2

(***************************************************************************)
(* C10: the language of a synset view is the language of the first member  *)
(* id that resolves (English for a unit stored with language "en", else    *)
(* Polish), and Polish when no member id resolves.                         *)
(***************************************************************************)
C10_ViewLanguageIsFirstResolvedMembers ==
    (status = "Ok" /\ IsSome(ret)) =>
        \A v \in ReturnedSynsetViews :
            LET wn == Unwrap(root)
                members == wn.synsets[v.id].lexical_units
                P == Resolving(wn, members)
            IN  /\ P = {} => v.language = "PL"
                /\ P # {} =>
                      LET first == wn.lexical_units[members[Kth(P, 1)]]
                      IN  /\ first.language = <<"e", "n">> => v.language = "EN"
                          /\ first.language = <<"p", "l">> => v.language = "PL"

\* a view of a synset whose first stored id dangles and whose second is English
C10_Witness ==
    /\ status = "Ok" /\ IsSome(ret)
    /\ Unwrap(ret).call = "get_synset"
    /\ Unwrap(ret).arg = 1
    /\ Unwrap(root).synsets[1].lexical_units = <<9, 2, 1>>
    /\ DOMAIN Unwrap(root).lexical_units = {1, 2}
    /\ Unwrap(Unwrap(ret).value).language = "EN"

(***************************************************************************)
(* C11: iter_lexical_relations and iter_synset_relations yield one view    *)
(* per stored edge, in list order; in each view parent, child and relation *)
(* are each present exactly when the id resolves in its map (unit or       *)
(* synset, and relation type), each independently of the other two, and    *)
(* carry the resolved id; valid and owner are the stored values.           *)
(***************************************************************************)
C11_EdgeViewsResolveEachIdOnItsOwn ==
    (status = "Ok" /\ IsSome(ret)
        /\ Unwrap(ret).call \in {"iter_lexical_relations", "iter_synset_relations"}) =>
        LET wn == Unwrap(root)
            lexical == Unwrap(ret).call = "iter_lexical_relations"
            edges == IF lexical THEN wn.lexical_relations ELSE wn.synset_relations
            nodes == IF lexical THEN DOMAIN wn.lexical_units ELSE DOMAIN wn.synsets
            views == Unwrap(ret).value
        IN  /\ Len(views) = Len(edges)
            /\ \A i \in 1..Len(edges) :
                  /\ IsSome(views[i].parent) <=> edges[i].parent \in nodes
                  /\ IsSome(views[i].child) <=> edges[i].child \in nodes
                  /\ IsSome(views[i].relation) <=> edges[i].relation \in DOMAIN wn.relation_types
                  /\ IsSome(views[i].parent) => Unwrap(views[i].parent).id = edges[i].parent
                  /\ IsSome(views[i].child) => Unwrap(views[i].child).id = edges[i].child
                  /\ IsSome(views[i].relation) => Unwrap(views[i].relation).id = edges[i].relation
                  /\ views[i].valid = edges[i].valid
                  /\ views[i].owner = edges[i].owner

\* the synset edges 1 -> 2 (relation 1) and 2 -> 9 (relation 3) viewed in a store
\* that holds synset 1 and relation type 1 only
C11_Witness ==
    /\ status = "Ok" /\ IsSome(ret)
    /\ Unwrap(ret).call = "iter_synset_relations"
    /\ Len(Unwrap(ret).value) = 2
    /\ IsSome(Unwrap(ret).value[1].parent)
    /\ ~IsSome(Unwrap(ret).value[1].child)
    /\ IsSome(Unwrap(ret).value[1].relation)
    /\ Unwrap(ret).value[1].valid
    /\ ~IsSome(Unwrap(ret).value[2].parent)
    /\ ~IsSome(Unwrap(ret).value[2].relation)

\* every member id of the synset is a lexical unit stored as Polish
AllMembersPolish(wn, s) ==
    \A i \in 1..Len(s.lexical_units) :
        /\ s.lexical_units[i] \in DOMAIN wn.lexical_units
        /\ wn.lexical_units[s.lexical_units[i]].language = <<"p", "l">>

(***************************************************************************)
(* C12: on every loaded store, also one with members that are no lexical   *)
(* unit, filter_synsets_by_lang does not fail and PL yields exactly the    *)
(* synsets all of whose members are Polish lexical units, EN exactly the   *)
(* others, each once: the two calls partition the synsets.                 *)
(***************************************************************************)
C12_LanguageFilterPartitions ==
    (status = "Ok" /\ IsSome(ret) /\ Unwrap(ret).call = "filter_synsets_by_lang") =>
        LET wn == Unwrap(root)
            r == Unwrap(ret)
            polish == {id \in DOMAIN wn.synsets : AllMembersPolish(wn, wn.synsets[id])}
            wanted == IF r.arg = "PL" THEN polish ELSE DOMAIN wn.synsets \ polish
        IN  /\ r.value[1]
            /\ {r.value[2][i] : i \in 1..Len(r.value[2])} = wanted
            /\ Len(r.value[2]) = Cardinality(wanted)

\* the positions of the synset edges whose relation field is the id
OfRelation(wn, id) ==
    {i \in 1..Len(wn.synset_relations) : wn.synset_relations[i].relation = id}

(***************************************************************************)
(* C13: synset_relations_by_id(id) yields exactly the elements of          *)
(* synset_relations whose relation field is id, one per occurrence and in  *)
(* the order of the list; an id of no edge yields the empty sequence.      *)
(***************************************************************************)
C13_RelationsByIdIsTheMatchingSubsequence ==
    (status = "Ok" /\ IsSome(ret) /\ Unwrap(ret).call = "synset_relations_by_id") =>
        LET wn == Unwrap(root)
            r == Unwrap(ret)
            P == OfRelation(wn, r.arg)
        IN  /\ Len(r.value) = Cardinality(P)
            /\ \A k \in 1..Len(r.value) : r.value[k] = wn.synset_relations[Kth(P, k)]

\* the same edge stored twice is returned twice
C13_Witness ==
    /\ status = "Ok" /\ IsSome(ret)
    /\ Unwrap(ret).call = "synset_relations_by_id" /\ Unwrap(ret).arg = 1
    /\ Len(Unwrap(ret).value) = 2
    /\ Unwrap(ret).value[1] = Unwrap(ret).value[2]

\* an edge of another relation in front of the one asked for is left out
C13_WitnessSkips ==
    /\ status = "Ok" /\ IsSome(ret)
    /\ Unwrap(ret).call = "synset_relations_by_id" /\ Unwrap(ret).arg = 1
    /\ Len(Unwrap(root).synset_relations) = 2
    /\ Unwrap(root).synset_relations[1].relation = 3
    /\ Len(Unwrap(ret).value) = 1

\* the strings with one comma between every two consecutive ones
RECURSIVE JoinWithComma(_)
JoinWithComma(strs) ==
    IF strs = <<>> THEN <<>>
    ELSE IF Len(strs) = 1 THEN strs[1]
    ELSE strs[1] \o <<",">> \o JoinWithComma(Tail(strs))

\* the names of the member ids that are keys of lexical_units, in member order
ResolvingNames(wn, members) ==
    [k \in 1..Cardinality(Resolving(wn, members)) |->
        wn.lexical_units[members[Kth(Resolving(wn, members), k)]].name]

(***************************************************************************)
(* C14: for a stored synset, synset_to_simple returns the names of the     *)
(* members that resolve, in member order, with one comma between every two *)
(* consecutive names, whatever the names are (an empty first name too).    *)
(***************************************************************************)
C14_SimpleIsTheNamesJoinedByCommas ==
    (status = "Ok" /\ IsSome(ret) /\ Unwrap(ret).call = "synset_to_simple"
        /\ Unwrap(ret).arg \in DOMAIN Unwrap(root).synsets) =>
        LET wn == Unwrap(root)
            r == Unwrap(ret)
        IN  /\ r.value[1]
            /\ r.value[2] = JoinWithComma(ResolvingNames(wn, wn.synsets[r.arg].lexical_units))

(***************************************************************************)
(* C15: synsets_to_simple completes for every set of ids (an id of no      *)
(* synset and a synset with an empty rendering included) and returns the   *)
(* renderings of the synsets in the set's order with one comma between     *)
(* every two consecutive renderings.                                       *)
(***************************************************************************)
C15_SimplesCompletesAndJoins ==
    (status = "Ok" /\ IsSome(ret) /\ Unwrap(ret).call = "synsets_to_simple") =>
        LET wn == Unwrap(root)
            r == Unwrap(ret)
        IN  /\ r.value[1]
            /\ (\A i \in 1..Len(r.arg) : r.arg[i] \in DOMAIN wn.synsets) =>
                   r.value[2] = JoinWithComma([i \in 1..Len(r.arg) |->
                                                  synset_to_simple(wn, r.arg[i])[2]])

\* the maps of the store, by the name of their field
MapFields == {"lexical_units", "synsets", "relation_types"}
KeysAreIds(wn) == \A f \in MapFields : \A k \in DOMAIN wn[f] : wn[f][k].id = k
\* the next event is a member text or a test element
NextAppends == NextShape = "Text" \/ (NextShape = "Empty" /\ NextTag = TAG_RELATION_TYPE_TEST)

(***************************************************************************)
(* C16: after every prefix of the event stream every key of lexical_units, *)
(* synsets and relation_types is the id of the value stored under it, and  *)
(* a member text or a test element changes no key and no id.               *)
(***************************************************************************)
C16_EveryKeyIsTheIdOfItsValue ==
    /\ [](IsSome(root) => KeysAreIds(Unwrap(root)))
    /\ [][(status = "running" /\ status' = "running" /\ IsSome(root) /\ NextAppends)
            => (/\ IsSome(root')
                /\ \A f \in MapFields :
                      /\ DOMAIN Unwrap(root')[f] = DOMAIN Unwrap(root)[f]
                      /\ \A k \in DOMAIN Unwrap(root)[f] :
                            Unwrap(root')[f][k].id = Unwrap(root)[f][k].id)]_vars

\* a self-closing relation type whose id is not its reverse field, stored and
\* then left in place while an open relation type takes a test
C16_Witness ==
    /\ status = "running" /\ IsSome(root)
    /\ LastShape = "Empty" /\ LastTag = TAG_RELATION_TYPE_TEST
    /\ DOMAIN Unwrap(root).relation_types = {1, 2}
    /\ Unwrap(root).relation_types[2].reverse = 1
    /\ Len(Unwrap(root).relation_types[1].tests) = 1
    /\ Unwrap(root).relation_types[2].tests = <<>>

EdgeTags == {TAG_LEXICAL_RELATION, TAG_SYNSET_RELATION}
NextIsEdge == NextShape = "Empty" /\ NextTag \in EdgeTags
NextIsRoot == NextShape = "Start" /\ NextTag = TAG_ARRAY_LIST

\* the elements of the list from position n + 1 on
After(list, n) == SubSeq(list, n + 1, Len(list))

\* an edge element appends its record to the end of its own list and changes
\* nothing else of the store and not the context
EdgeOnlyAppends ==
    (status = "running" /\ status' = "running" /\ NextIsEdge)
        => LET lexical == NextTag = TAG_LEXICAL_RELATION
               own == IF lexical THEN "lexical_relations" ELSE "synset_relations"
               rec == IF lexical THEN parse_lexical_relation(Unwrap(ev').attrs)[2]
                      ELSE parse_synset_relation(Unwrap(ev').attrs)[2]
           IN  /\ IsSome(root) /\ IsSome(root')
               /\ Unwrap(root')[own] = Append(Unwrap(root)[own], rec)
               /\ \A f \in DOMAIN Unwrap(root) \ {own} : Unwrap(root')[f] = Unwrap(root)[f]
               /\ context' = context

(***************************************************************************)
(* C17 as the specification states it: a loaded store holds one record per *)
(* lexicalrelations element of the document in lexical_relations and one   *)
(* per synsetrelations element in synset_relations, in document order; an  *)
(* edge element only appends to its own list.                              *)
(***************************************************************************)
C17_OneRecordPerEdgeElement ==
    /\ [](status = "Ok" =>
            /\ Unwrap(root).lexical_relations = seen.lexical
            /\ Unwrap(root).synset_relations = seen.synset)
    /\ [][EdgeOnlyAppends]_vars

(***************************************************************************)
(* C17, amended: after every prefix of the document, and so in the loaded  *)
(* store, lexical_relations holds one record per lexicalrelations element  *)
(* read since the last root Start and synset_relations one per             *)
(* synsetrelations element read since it, in document order and equal      *)
(* records included; an edge element appends its record to the end of its  *)
(* own list and changes nothing else of the store and not the context; no  *)
(* other event than a root Start changes the two lists.                    *)
(***************************************************************************)
C17_EdgesAreAppendedToTheirOwnList ==
    /\ []((status \in {"running", "Ok"} /\ IsSome(root)) =>
            /\ Unwrap(root).lexical_relations = After(seen.lexical, seen.before.lexical)
            /\ Unwrap(root).synset_relations = After(seen.synset, seen.before.synset))
    /\ [][EdgeOnlyAppends]_vars
    /\ [][(/\ status = "running" /\ status' \in {"running", "Ok"} /\ IsSome(root)
           /\ ~NextIsEdge /\ ~NextIsRoot)
            => (/\ IsSome(root')
                /\ Unwrap(root').lexical_relations = Unwrap(root).lexical_relations
                /\ Unwrap(root').synset_relations = Unwrap(root).synset_relations)]_vars

\* a loaded document with a lexical edge before its second root Start and
\* the same lexical edge and a synset edge after it: the store holds the last two
C17_Witness ==
    /\ status = "Ok"
    /\ seen.before = [lexical |-> 1, synset |-> 0]
    /\ Len(seen.lexical) = 2 /\ seen.lexical[1] = seen.lexical[2]
    /\ Unwrap(root).lexical_relations = <<seen.lexical[2]>>
    /\ Unwrap(root).synset_relations = seen.synset
    /\ Len(seen.synset) = 1

NextIsTest == NextShape = "Empty" /\ NextTag = TAG_RELATION_TYPE_TEST
NextIsRelationType == NextTag = TAG_RELATION_TYPE /\ NextShape \in {"Start", "Empty"}

\* what a relationtypes Start and a self-closing relationtypes element do
RelationTypeIsStored ==
    (status = "running" /\ status' = "running" /\ NextIsRelationType)
        => LET id == DecValue(AttrValue(Unwrap(ev').attrs, "id"))
           IN  /\ IsSome(root')
               /\ id \in DOMAIN Unwrap(root').relation_types
               /\ Unwrap(root').relation_types[id].id = id
               /\ Unwrap(root').relation_types[id].tests = <<>>
               /\ context' = IF NextShape = "Start" THEN CtxRelationType(id)
                             ELSE context

\* the test of the next event is appended to the end of the test list of the
\* relation type id, the load goes on and nothing else changes
TestIsAppendedTo(id) ==
    /\ status' = "running" /\ IsSome(root) /\ IsSome(root')
    /\ id \in DOMAIN Unwrap(root).relation_types
    /\ context' = context
    /\ LET old == Unwrap(root).relation_types
           data == parse_relation_type_test(Unwrap(ev').attrs)[2]
       IN  Unwrap(root') =
               [Unwrap(root) EXCEPT !.relation_types =
                   [k \in DOMAIN old |->
                       IF k = id
                       THEN [old[k] EXCEPT !.tests = Append(old[k].tests, data)]
                       ELSE old[k]]]

\* the innermost relationtypes element that is open
Innermost == seen.open[Len(seen.open)]

(***************************************************************************)
(* C18 as the specification states it: a relationtypes Start stores the    *)
(* relation type with no tests and makes it the context, and every test    *)
(* element read before the matching End of that element is appended to the *)
(* test list of that relation type and of no other; the self-closing form  *)
(* is stored with no tests and leaves the context.                         *)
(***************************************************************************)
C18_EveryTestBeforeTheEndIsAppended ==
    /\ [][RelationTypeIsStored]_vars
    /\ [][(status = "running" /\ NextIsTest /\ seen.open # <<>>)
            => TestIsAppendedTo(Innermost.id)]_vars

(***************************************************************************)
(* C18, amended: a relationtypes Start stores the relation type with no    *)
(* tests and makes it the context; every test element read before the      *)
(* matching End with no synset, relationtypes or root Start read since the *)
(* relationtypes Start is appended, in document order, to the test list of *)
(* that relation type and of no other, and so is every test arriving while *)
(* a stored relation type is the context; the self-closing form is stored  *)
(* with no tests and leaves the context.                                   *)
(***************************************************************************)
C18_TestsGoToTheOpenRelationType ==
    /\ [][RelationTypeIsStored]_vars
    /\ [][(status = "running" /\ NextIsTest /\ seen.open # <<>> /\ Innermost.direct)
            => (context = CtxRelationType(Innermost.id)
                /\ TestIsAppendedTo(Innermost.id))]_vars
    /\ [][(/\ status = "running" /\ NextIsTest /\ IsSome(root)
           /\ context.kind = "RelationType"
           /\ context.id \in DOMAIN Unwrap(root).relation_types)
            => TestIsAppendedTo(context.id)]_vars

\* two tests collected in order by the open relation type 1 while the
\* self-closing relation type 2 stored before it has none
C18_Witness ==
    /\ status = "running" /\ IsSome(root)
    /\ seen.open = <<[id |-> 1, direct |-> TRUE]>>
    /\ context = CtxRelationType(1)
    /\ DOMAIN Unwrap(root).relation_types = {1, 2}
    /\ Len(Unwrap(root).relation_types[1].tests) = 2
    /\ Unwrap(root).relation_types[1].tests[1].text = <<"a">>
    /\ Unwrap(root).relation_types[1].tests[2].text = <<"b">>
    /\ Unwrap(root).relation_types[2].tests = <<>>

\* a test read inside the open relation type 1 after a root Start: the load
\* goes on and no relation type holds it
C18_WitnessDropped ==
    /\ status = "running" /\ IsSome(root)
    /\ LastShape = "Empty" /\ LastTag = TAG_RELATION_TYPE_TEST
    /\ seen.open = <<[id |-> 1, direct |-> FALSE]>>
    /\ Unwrap(root).relation_types = <<>>

\* the map an element is inserted into and the record bound from it
InsertsInto(e) ==
    IF e.shape = "Empty" /\ e.tag = TAG_LEXICAL_UNIT THEN "lexical_units"
    ELSE IF e.shape = "Start" /\ e.tag = TAG_SYNSET THEN "synsets"
    ELSE IF e.shape \in {"Start", "Empty"} /\ e.tag = TAG_RELATION_TYPE THEN "relation_types"
    ELSE "none"
BoundFrom(e) ==
    IF e.tag = TAG_LEXICAL_UNIT
    THEN [parse_lexical_unit(e.attrs)[2] EXCEPT
             !.language = IF HasPwnSuffix(parse_lexical_unit(e.attrs)[2].pos)
                          THEN <<"e", "n">> ELSE <<"p", "l">>]
    ELSE IF e.tag = TAG_SYNSET THEN parse_synset(e.attrs)[2]
    ELSE parse_relation_type(e.attrs)[2]

(***************************************************************************)
(* C19: an element that is inserted into a map leaves the map with exactly *)
(* one entry for its id, the record of this element, whatever was stored   *)
(* under that id before, and the other entries as they were; the record of *)
(* a synset has no members (those of an earlier synset of the id are       *)
(* gone), that of a relation type no tests.  The other fields of the store *)
(* are unchanged.                                                          *)
(***************************************************************************)
C19_TheLaterElementReplacesTheEarlier ==
    [][(/\ status = "running" /\ status' = "running" /\ IsSome(ev')
        /\ InsertsInto(Unwrap(ev')) # "none")
         => LET f == InsertsInto(Unwrap(ev'))
                data == BoundFrom(Unwrap(ev'))
                old == Unwrap(root)
                new == Unwrap(root')
            IN  /\ IsSome(root) /\ IsSome(root')
                /\ DOMAIN new[f] = DOMAIN old[f] \cup {data.id}
                /\ new[f][data.id] = data
                /\ \A k \in DOMAIN old[f] \ {data.id} : new[f][k] = old[f][k]
                /\ f = "synsets" => new[f][data.id].lexical_units = <<>>
                /\ f = "relation_types" => new[f][data.id].tests = <<>>
                /\ \A g \in DOMAIN old \ {f} : new[g] = old[g]]_vars

\* three events read: the root, the Start of relation type 1 named "h" (only
\* a Start makes a relation type the context) and now the self-closing
\* relation type 1 named "g", which is the one entry of the map
C19_Witness ==
    /\ status = "running" /\ IsSome(root) /\ nread = 3
    /\ context = CtxRelationType(1)
    /\ LastIs(EvEmpty(TAG_RELATION_TYPE, RelationTypeAgain))
    /\ DOMAIN Unwrap(root).relation_types = {1}
    /\ Unwrap(root).relation_types[1].name = <<"g">>

\* a loaded store as the stream root, synset 1, "1", synset 1 of owner "x",
\* " 2" leaves it: one synset 1, of owner "x", whose only member is 2
C19_WitnessSynset ==
    /\ status = "Ok" /\ nread = 6
    /\ DOMAIN Unwrap(root).synsets = {1}
    /\ Unwrap(root).synsets[1].owner = <<"x">>
    /\ Unwrap(root).synsets[1].lexical_units = <<2>>

EmptyStore(wn) ==
    /\ \A f \in MapFields : DOMAIN wn[f] = {}
    /\ wn.lexical_relations = <<>>
    /\ wn.synset_relations = <<>>

(***************************************************************************)
(* C20: a root Start installs a store with nothing in it, whatever was     *)
(* recorded before, and leaves the parsing context as it was; what the     *)
(* load returns is therefore what follows the last root Start.             *)
(***************************************************************************)
C20_RootStartInstallsAFreshStore ==
    /\ [][(status = "running" /\ NextIsRoot)
            => (/\ status' = "running" /\ IsSome(root')
                /\ EmptyStore(Unwrap(root'))
                /\ Unwrap(root').owner = AttrValue(Unwrap(ev').attrs, "owner")
                /\ Unwrap(root').version = AttrValue(Unwrap(ev').attrs, "version")
                /\ context' = context)]_vars
    /\ []((status = "running" /\ LastShape = "Start" /\ LastTag = TAG_ARRAY_LIST)
            => EmptyStore(Unwrap(root)))

\* a synset was the context (so a root and a synset were recorded) when the
\* root Start arrived: the store is empty and the context still the synset
C20_Witness ==
    /\ status = "running" /\ IsSome(root)
    /\ LastShape = "Start" /\ LastTag = TAG_ARRAY_LIST
    /\ context = CtxSynset(2)
    /\ EmptyStore(Unwrap(root))

\* every member id of the synset is a key of lexical_units
AllResolve(wn, s) ==
    \A i \in 1..Len(s.lexical_units) : s.lexical_units[i] \in DOMAIN wn.lexical_units
\* the members all resolve, the first is stored as Polish and a later one as English
PolishThenEnglish(wn, s) ==
    /\ AllResolve(wn, s)
    /\ Len(s.lexical_units) >= 2
    /\ wn.lexical_units[s.lexical_units[1]].language = <<"p", "l">>
    /\ \E i \in 2..Len(s.lexical_units) :
          wn.lexical_units[s.lexical_units[i]].language = <<"e", "n">>

(***************************************************************************)
(* C21: the language rule of filter_synsets_by_lang and that of the synset *)
(* view agree in one direction.  Of a call of filter_synsets_by_lang that  *)
(* completed: a synset yielded for PL that has members, all resolving, has *)
(* a view of language Polish; a synset with no members is yielded for PL,  *)
(* not for EN, and its view is Polish; and a synset whose first member is  *)
(* Polish and a later one English is yielded for EN although its view is   *)
(* Polish, so the converse does not hold.                                  *)
(***************************************************************************)
C21_FilterPolishImpliesViewPolish ==
    (/\ status = "Ok" /\ IsSome(ret)
     /\ Unwrap(ret).call = "filter_synsets_by_lang" /\ Unwrap(ret).value[1]) =>
        LET wn == Unwrap(root)
            lang == Unwrap(ret).arg
            ids == Unwrap(ret).value[2]
            yielded == {ids[i] : i \in 1..Len(ids)}
            ViewLanguage(id) == Unwrap(get_synset(wn, id)).language
        IN  /\ lang = "PL" =>
                  \A id \in yielded :
                      (wn.synsets[id].lexical_units # <<>> /\ AllResolve(wn, wn.synsets[id]))
                          => ViewLanguage(id) = "PL"
            /\ \A id \in DOMAIN wn.synsets :
                  wn.synsets[id].lexical_units = <<>> =>
                      /\ id \in yielded <=> lang = "PL"
                      /\ ViewLanguage(id) = "PL"
            /\ lang = "EN" =>
                  \A id \in DOMAIN wn.synsets :
                      PolishThenEnglish(wn, wn.synsets[id]) =>
                          /\ id \in yielded
                          /\ ViewLanguage(id) = "PL"

\* the PL call yields synset 1, whose two members are the Polish unit 1
C21_Witness ==
    /\ status = "Ok" /\ IsSome(ret)
    /\ Unwrap(ret).call = "filter_synsets_by_lang" /\ Unwrap(ret).arg = "PL"
    /\ Unwrap(ret).value = <<TRUE, <<1>>>>
    /\ Unwrap(root).synsets[1].lexical_units = <<1, 1>>
    /\ Unwrap(root).lexical_units[1].language = <<"p", "l">>
    /\ Unwrap(get_synset(Unwrap(root), 1)).language = "PL"

\* the EN call yields synset 1 of members Polish 1, English 2: its view is Polish
C21_WitnessConverse ==
    /\ status = "Ok" /\ IsSome(ret)
    /\ Unwrap(ret).call = "filter_synsets_by_lang" /\ Unwrap(ret).arg = "EN"
    /\ Unwrap(ret).value = <<TRUE, <<1>>>>
    /\ Unwrap(root).synsets[1].lexical_units = <<1, 2>>
    /\ PolishThenEnglish(Unwrap(root), Unwrap(root).synsets[1])
    /\ Unwrap(get_synset(Unwrap(root), 1)).language = "PL"

\* the PL call yields synset 1, which has no members
C21_WitnessNoMembers ==
    /\ status = "Ok" /\ IsSome(ret)
    /\ Unwrap(ret).call = "filter_synsets_by_lang" /\ Unwrap(ret).arg = "PL"
    /\ Unwrap(root).synsets[1].lexical_units = <<>>
    /\ Unwrap(ret).value[1] /\ Unwrap(ret).value[2][1] = 1
====
